---- MODULE Spec2Model ----
(***************************************************************************)
(* Model of bot.py: the SQLite-backed channel registry (class Database),   *)
(* the referral-link fan-out (create_request_links) and the command        *)
(* handlers registered in main().                                          *)
(*                                                                         *)
(* Tables are sequences of rows in rowid order.  Every table has an        *)
(* INTEGER PRIMARY KEY AUTOINCREMENT column that no statement supplies, so *)
(* a new row always gets the largest rowid: INSERT appends, and            *)
(* INSERT OR REPLACE first deletes the rows that conflict on a UNIQUE      *)
(* column and then appends.  The timestamp columns are written and never   *)
(* read; they are left out.                                                *)
(*                                                                         *)
(* Channel ids and callback data are sequences of one-character strings,   *)
(* so that startswith and split act on them as Python's do.                *)
(*                                                                         *)
(* A token is an opaque string of 16 random characters; the model names   *)
(* the distinct strings the generator yields 1, 2, ... in the order of     *)
(* their first appearance.  A draw yields either a string it has yielded   *)
(* before (stored or not) or the next new one.                             *)
(*                                                                         *)
(* main() builds the Application without concurrent_updates, so updates    *)
(* are handled one at a time: a handler runs to its end before the next    *)
(* update is taken (the guard Idle).                                       *)
(***************************************************************************)
EXTENDS Integers, Sequences, FiniteSets, TLC

\* ---------------------------------------------------------------- bounds
\* Number of distinct tokens the generator yields in one run of the model.
NumTokens == 3
\* Number of updates the bot handles in one run of the model.
MaxUpdates == 5
\* The same, in the runs in which updates are handled concurrently.
MaxConcurrentUpdates == 3

\* ------------------------------------------------------------ input sets
None == "None"
Users == {"u1", "u2"}
Titles == {"News", "Deals"}
Tokens == 1..NumTokens
\* Chat ids that /add can be given: bot.get_chat takes a numeric id or the
\* @username of a channel, and a username may contain underscores.
PostIds == { <<"@", "a">>, <<"@", "a", "_", "b">> }
\* Chats in which /req and /send are issued, and their types.
ReqChats == {"-100222", "-100333"}
PrivateChat == "555"
Chats == ReqChats \cup {PrivateChat}
ChatType(chat) == IF chat \in ReqChats THEN "supergroup" ELSE "private"
ChatTitle(chat) == IF chat = "-100222" THEN "Alpha" ELSE "Beta"
\* Outcomes of bot.get_chat_member: a member status, or an exception.
MemberOutcomes == {"creator", "administrator", "member", "error"}
BotName == "bot"

\* ------------------------------------------------------- string helpers
REMOVE_PREFIX == <<"r", "e", "m", "o", "v", "e", "_">>
CANCEL_LIST == <<"c", "a", "n", "c", "e", "l", "_", "l", "i", "s", "t">>

\* str.startswith
StartsWith(s, p) == Len(s) >= Len(p) /\ SubSeq(s, 1, Len(p)) = p

\* str.split("_"): the parts between the underscores, in order
RECURSIVE SplitAcc(_, _, _)
SplitAcc(s, cur, acc) ==
    IF s = <<>> THEN Append(acc, cur)
    ELSE IF Head(s) = "_" THEN SplitAcc(Tail(s), <<>>, Append(acc, cur))
    ELSE SplitAcc(Tail(s), Append(cur, Head(s)), acc)

Split(s) == SplitAcc(s, <<>>, <<>>)

\* f"remove_{channel_id}" of list_channels
CallbackData(channel_id) == REMOVE_PREFIX \o channel_id

\* data.split("_")[1] of button_callback (Python index 1 is TLA+ index 2)
DecodeChannelId(data) == Split(data)[2]

\* f"https://t.me/{bot_username}?start={token}"
Link(username, token) == [bot |-> username, start |-> token]
\* Python's None where a link is expected
NoLink == [bot |-> None, start |-> 0]

\* ---------------------------------------------------------------- state
VARIABLES
    owner,          \* owner.user_id of the row id = 1, or None
    post_channels,  \* rows [channel_id, channel_name] in rowid order
    req_channels,   \* rows [channel_id, channel_name] in rowid order
    request_links,  \* rows [req_channel_id, post_channel_id, link_token, link_title]
    bot_username,   \* the global bot_username, None until first fetched
    buttons,        \* callback data of the inline buttons sent by /list
    pc,             \* "idle", or "send" while send_command is in its loop
    send,           \* locals of the running send_command
    outbox,         \* messages send_command has dispatched in its current run
    reply,          \* what the handler of the last update answered its caller
    update,         \* the update handled last
    nUpdates,       \* number of updates handled so far
    gen,            \* per request channel: what its last create_request_links did
    collided,       \* whether a drawn token has ever repeated a stored or drawn one
    issued,         \* number of distinct tokens the generator has yielded
    req,            \* locals of create_request_links while its loop is running
    concurrent_updates  \* whether updates of different chats are handled
                        \* concurrently; main() does not ask for it

vars == <<owner, post_channels, req_channels, request_links, bot_username,
          buttons, pc, send, outbox, reply, update, nUpdates, gen, collided,
          issued, req, concurrent_updates>>

NoSend == [req |-> None, list |-> <<>>, idx |-> 0, success |-> 0, failed |-> <<>>]
\* No create_request_links is inside its loop.
NoReq == [chat |-> None, posts |-> <<>>, toks |-> <<>>, idx |-> 0]
\* gen[R] before the first create_request_links(R)
NoGen == [called |-> FALSE, changed |-> FALSE, written |-> <<>>]

\* ------------------------------------------------------ sequence helpers
Range(s) == { s[i] : i \in 1..Len(s) }
ChannelIds(table) == { table[i].channel_id : i \in 1..Len(table) }
LinkTokens(links) == { links[i].link_token : i \in 1..Len(links) }

\* ------------------------------------------------------- class Database
\* INSERT OR REPLACE INTO owner (id, user_id) VALUES (1, ?)
add_owner(user_id) == user_id

\* SELECT user_id FROM owner WHERE id = 1
get_owner == owner

\* add_post_channel as INSERT OR IGNORE: an existing row keeps its name.
add_post_channel_or_ignore(table, channel_id, channel_name) ==
    IF \E i \in 1..Len(table) : table[i].channel_id = channel_id THEN table
    ELSE Append(table, [channel_id |-> channel_id, channel_name |-> channel_name])

\* INSERT OR REPLACE INTO post_channels: channel_id is UNIQUE, so the row
\* with the same channel_id is deleted and the new row is appended.
add_post_channel(table, channel_id, channel_name) ==
    Append(SelectSeq(table, LAMBDA r : r.channel_id # channel_id),
           [channel_id |-> channel_id, channel_name |-> channel_name])

\* SELECT channel_id, channel_name FROM post_channels (a table scan)
get_post_channels == post_channels

\* delete_post_channel_row without its WHERE clause: every row goes.
delete_every_post_channel_row(table, channel_id) == <<>>

\* DELETE FROM post_channels WHERE channel_id = ?
delete_post_channel_row(table, channel_id) ==
    SelectSeq(table, LAMBDA r : r.channel_id # channel_id)

\* delete_links_of_post whose WHERE clause matches no row: the links stay.
delete_links_of_no_post(links, channel_id) == links

\* DELETE FROM request_links WHERE post_channel_id = ?
delete_links_of_post(links, channel_id) ==
    SelectSeq(links, LAMBDA r : r.post_channel_id # channel_id)

\* add_req_channel without its INSERT: the request channel is not stored.
add_req_channel_dropped(table, channel_id, channel_name) == table

\* INSERT OR REPLACE INTO req_channels: channel_id is UNIQUE
add_req_channel(table, channel_id, channel_name) ==
    Append(SelectSeq(table, LAMBDA r : r.channel_id # channel_id),
           [channel_id |-> channel_id, channel_name |-> channel_name])

\* SELECT ... FROM req_channels WHERE channel_id = ? ; fetchone(): the row
\* found, as a sequence of one row, or <<>> for Python's None
get_req_channel(table, channel_id) ==
    LET hit == SelectSeq(table, LAMBDA r : r.channel_id = channel_id)
    IN  IF hit = <<>> THEN <<>> ELSE <<Head(hit)>>

\* insert_or_replace_link on a table whose link_token is not UNIQUE: nothing
\* conflicts, the row is added.
insert_link_keeping_duplicates(links, row) == Append(links, row)

\* INSERT OR REPLACE INTO request_links: the only UNIQUE column of the
\* table besides the rowid is link_token, so the rows deleted are those with
\* the same token, whatever pair they belong to; a row of the same
\* (req_channel_id, post_channel_id) with another token is kept.
insert_or_replace_link(links, row) ==
    Append(SelectSeq(links, LAMBDA r : r.link_token # row.link_token), row)

\* The loop of create_request_links: one row per post channel, in the order
\* of post_channels, toks[i] being the token drawn for the i-th of them.
RECURSIVE insert_links(_, _, _, _)
insert_links(links, req_channel_id, posts, toks) ==
    IF posts = <<>> THEN links
    ELSE insert_links(
            insert_or_replace_link(links,
                [req_channel_id  |-> req_channel_id,
                 post_channel_id |-> Head(posts).channel_id,
                 link_token      |-> Head(toks),
                 link_title      |-> Head(posts).channel_name]),
            req_channel_id, Tail(posts), Tail(toks))

\* create_request_links: the table after the call, and the value returned
create_request_links(links, posts, req_channel_id, toks) ==
    [links |-> insert_links(links, req_channel_id, posts, toks),
     count |-> Len(posts)]

\* The rows get_request_links selects: request_links JOIN post_channels
\* ON post_channel_id = channel_id WHERE req_channel_id = ?, in rowid order.
\* channel_id is UNIQUE in post_channels, so a link row joins one row at most.
joined_links(links, posts, req_channel_id) ==
    SelectSeq(links, LAMBDA r : r.req_channel_id = req_channel_id
                                /\ r.post_channel_id \in ChannelIds(posts))

channel_name_of(posts, channel_id) ==
    Head(SelectSeq(posts, LAMBDA r : r.channel_id = channel_id)).channel_name

\* get_request_links: the (link, title, post_channel_name) triples
get_request_links(links, posts, req_channel_id, username) ==
    LET rows == joined_links(links, posts, req_channel_id)
    IN  [i \in 1..Len(rows) |->
            <<Link(username, rows[i].link_token), rows[i].link_title,
              channel_name_of(posts, rows[i].post_channel_id)>>]

\* links_of_pair without the req_channel_id of its WHERE clause: the rows of
\* the post channel, whatever request channel they were generated for.
links_of_post_in_any_request_channel(links, req_channel_id, post_channel_id) ==
    SelectSeq(links, LAMBDA r : r.post_channel_id = post_channel_id)

\* The rows get_request_link_for_post selects, in rowid order (a table scan:
\* no index covers req_channel_id or post_channel_id).
links_of_pair(links, req_channel_id, post_channel_id) ==
    SelectSeq(links, LAMBDA r : r.req_channel_id = req_channel_id
                                /\ r.post_channel_id = post_channel_id)

\* get_request_link_for_post: fetchone() takes the first selected row
get_request_link_for_post(links, req_channel_id, post_channel_id, username) ==
    LET rows == links_of_pair(links, req_channel_id, post_channel_id)
    IN  IF rows = <<>> THEN NoLink ELSE Link(username, Head(rows).link_token)

\* ------------------------------------------------------------- handlers
\* NoneRunning with an await in the loop of create_request_links: the event
\* loop may run other handlers between two inserts.
NoneRunning_with_await_in_loop == TRUE

\* No coroutine is inside a stretch of synchronous code, so the event loop
\* can start a handler or resume a suspended one.  create_request_links
\* (lines 123-138) has no await between its inserts and its commit.
NoneRunning == req = NoReq

\* The next update can be taken: no handler is running or, when updates are
\* handled concurrently, none is inside synchronous code.
Idle ==
    /\ NoneRunning
    /\ IF concurrent_updates THEN nUpdates < MaxConcurrentUpdates
       ELSE nUpdates < MaxUpdates /\ pc = "idle"

\* The update a handler is called with (data: the argument of /add or the
\* callback data of the button; title: what bot.get_chat answered to /add),
\* and the sizes of the tables as the handler finds them.
Update(handler, user, chat, data, title) ==
    [handler |-> handler, user |-> user, chat |-> chat, data |-> data,
     title |-> title,
     nposts |-> Len(post_channels), nlinks |-> Len(request_links)]

Reply(kind, count, data) == [kind |-> kind, count |-> count, data |-> data]
\* The handler has sent no answer (yet): it is still running, or it has
\* ended with an exception.
NoReply == Reply("none", 0, <<>>)

\* A change of the post_channels table since the last create_request_links
\* of a request channel is remembered in gen[R].changed.
Touched(g, posts) ==
    [r \in ReqChats |-> [g[r] EXCEPT !.changed = @ \/ posts # post_channels]]

\* set_owner: /setowner, from anybody
SetOwner(user) ==
    /\ Idle
    /\ owner' = add_owner(user)
    /\ reply' = Reply("owner_set", 0, <<>>)
    /\ update' = Update("setowner", user, PrivateChat, <<>>, None)
    /\ nUpdates' = nUpdates + 1
    /\ UNCHANGED <<post_channels, req_channels, request_links, bot_username,
                   buttons, pc, send, outbox, gen,
                   collided, issued,
                   req, concurrent_updates>>

\* add_channel that stores the row before it resolves the chat: an id that
\* get_chat cannot resolve is stored without a name.
AddChannel_storing_unresolved(user, args) ==
    /\ Idle
    /\ nUpdates' = nUpdates + 1
    /\ IF user # get_owner
         THEN /\ update' = Update("add", user, PrivateChat, args, None)
              /\ reply' = Reply("owner_only", 0, <<>>)
              /\ UNCHANGED <<post_channels, gen>>
       ELSE IF args = <<>>
         THEN /\ update' = Update("add", user, PrivateChat, args, None)
              /\ reply' = Reply("usage", 0, <<>>)
              /\ UNCHANGED <<post_channels, gen>>
       ELSE \E chat \in Titles \cup {"error"} :
            /\ update' = Update("add", user, PrivateChat, args, chat)
            /\ post_channels' = add_post_channel(post_channels, args[1],
                                                 IF chat = "error" THEN None ELSE chat)
            /\ gen' = Touched(gen, post_channels')
            /\ \E sent \in BOOLEAN :
                 reply' = IF sent /\ chat # "error"
                            THEN Reply("added", 0, <<chat, args[1]>>)
                          ELSE Reply("add_failed", 0, <<>>)
    /\ UNCHANGED <<owner, req_channels, request_links, bot_username,
                   buttons, pc, send, outbox, collided, issued,
                   req, concurrent_updates>>

\* add_channel: /add <channel_id>.  args is <<>> or <<channel_id>>; chat is
\* what bot.get_chat returns: a title, or "error" when it raises; sent tells
\* whether the reply inside the try block went through (when it raises, the
\* except branch replies instead, after the row has been written).
AddChannel(user, args) ==
    /\ Idle
    /\ nUpdates' = nUpdates + 1
    /\ IF user # get_owner
         THEN /\ update' = Update("add", user, PrivateChat, args, None)
              /\ reply' = Reply("owner_only", 0, <<>>)
              /\ UNCHANGED <<post_channels, gen>>
       ELSE IF args = <<>>
         THEN /\ update' = Update("add", user, PrivateChat, args, None)
              /\ reply' = Reply("usage", 0, <<>>)
              /\ UNCHANGED <<post_channels, gen>>
       ELSE \E chat \in Titles \cup {"error"} :
            /\ update' = Update("add", user, PrivateChat, args, chat)
            /\ IF chat = "error"
                 THEN /\ reply' = Reply("add_failed", 0, <<>>)
                      /\ UNCHANGED <<post_channels, gen>>
               ELSE /\ post_channels' = add_post_channel(post_channels, args[1], chat)
                    /\ gen' = Touched(gen, post_channels')
                    /\ \E sent \in BOOLEAN :
                         reply' = IF sent THEN Reply("added", 0, <<chat, args[1]>>)
                                  ELSE Reply("add_failed", 0, <<>>)
    /\ UNCHANGED <<owner, req_channels, request_links, bot_username,
                   buttons, pc, send, outbox, collided, issued,
                   req, concurrent_updates>>

\* The keyboard list_channels builds: one remove button per post channel,
\* then the cancel button.
Keyboard(posts) ==
    [i \in 1..Len(posts) |-> CallbackData(posts[i].channel_id)] \o <<CANCEL_LIST>>

\* list_channels without its owner check
ListChannels_for_anyone(user) ==
    /\ Idle
    /\ update' = Update("list", user, PrivateChat, <<>>, None)
    /\ nUpdates' = nUpdates + 1
    /\ IF get_post_channels = <<>>
         THEN /\ reply' = Reply("no_post_channels_yet", 0, <<>>)
              /\ UNCHANGED buttons
       ELSE /\ reply' = Reply("list", 0, Keyboard(get_post_channels))
            /\ buttons' = buttons \cup Range(Keyboard(get_post_channels))
    /\ UNCHANGED <<owner, post_channels, req_channels, request_links,
                   bot_username, pc, send, outbox, gen,
                   collided, issued,
                   req, concurrent_updates>>

\* list_channels: /list
ListChannels(user) ==
    /\ Idle
    /\ update' = Update("list", user, PrivateChat, <<>>, None)
    /\ nUpdates' = nUpdates + 1
    /\ IF user # get_owner
         THEN /\ reply' = Reply("owner_only", 0, <<>>)
              /\ UNCHANGED buttons
       ELSE IF get_post_channels = <<>>
         THEN /\ reply' = Reply("no_post_channels_yet", 0, <<>>)
              /\ UNCHANGED buttons
       ELSE /\ reply' = Reply("list", 0, Keyboard(get_post_channels))
            /\ buttons' = buttons \cup Range(Keyboard(get_post_channels))
    /\ UNCHANGED <<owner, post_channels, req_channels, request_links,
                   bot_username, pc, send, outbox, gen,
                   collided, issued,
                   req, concurrent_updates>>

\* remove_post_channel without its second DELETE: the links stay.
remove_post_channel_keeping_links(channel_id) ==
    /\ post_channels' = delete_post_channel_row(post_channels, channel_id)
    /\ request_links' = request_links

\* remove_post_channel: both DELETE statements, then the commit
remove_post_channel(channel_id) ==
    /\ post_channels' = delete_post_channel_row(post_channels, channel_id)
    /\ request_links' = delete_links_of_post(request_links, channel_id)

\* button_callback: user presses a button of a keyboard that /list sent.
ButtonCallback(user, data) ==
    /\ Idle
    /\ data \in buttons
    /\ update' = Update("button", user, PrivateChat, data, None)
    /\ nUpdates' = nUpdates + 1
    /\ IF StartsWith(data, REMOVE_PREFIX)
         THEN /\ remove_post_channel(DecodeChannelId(data))
              /\ gen' = Touched(gen, post_channels')
              /\ reply' = Reply("removed", 0, <<>>)
       ELSE IF data = CANCEL_LIST
         THEN /\ reply' = Reply("cancelled", 0, <<>>)
              /\ UNCHANGED <<post_channels, request_links, gen>>
       ELSE /\ reply' = NoReply
            /\ UNCHANGED <<post_channels, request_links, gen>>
    /\ UNCHANGED <<owner, req_channels, bot_username, buttons, pc, send, outbox,
                   collided, issued,
                   req, concurrent_updates>>

\* AdminCheck with the status test left out: any member passes.
AdminCheck_admitting_members(chat, member) ==
    IF ChatType(chat) \notin {"group", "supergroup", "channel"} THEN "channels_only"
    ELSE IF member = "error" THEN "perm_error"
    ELSE "ok"

\* The check of req_command and send_command that the command comes from a
\* group or channel and from one of its admins: "ok", or the reply sent.
AdminCheck(chat, member) ==
    IF ChatType(chat) \notin {"group", "supergroup", "channel"} THEN "channels_only"
    ELSE IF member = "error" THEN "perm_error"
    ELSE IF member \notin {"creator", "administrator"} THEN "admins_only"
    ELSE "ok"

Max(S) == CHOOSE x \in S : \A y \in S : y <= x

\* The tokens n successive draws of secrets.choice can yield when k distinct
\* tokens have been yielded before: each draw repeats one of those yielded
\* so far or yields the next new one.
RECURSIVE Draws(_, _)
Draws(n, k) ==
    IF n = 0 THEN {<<>>}
    ELSE UNION { { <<t>> \o rest : rest \in Draws(n - 1, Max({k, t})) } :
                 t \in { u \in Tokens : u <= k + 1 } }

\* A token of toks is already stored in links, or occurs twice in toks.
Collides(links, toks) ==
    \/ \E i \in 1..Len(toks) : toks[i] \in LinkTokens(links)
    \/ \E i, j \in 1..Len(toks) : i # j /\ toks[i] = toks[j]

\* What create_request_links(R) did, kept for the properties: the token it
\* drew for each post channel it found.
Generated(posts, toks) ==
    [called |-> TRUE, changed |-> FALSE,
     written |-> [id \in ChannelIds(posts) |->
                    toks[CHOOSE i \in 1..Len(posts) : posts[i].channel_id = id]]]

\* The outcomes of lines 321-322 and 376-377: the cached bot_username, or
\* what get_me answers when none is cached (BotName, or "error" when it
\* raises).
GetMe == IF bot_username = None THEN {BotName, "error"} ELSE {bot_username}

\* req_command: /req in chat.  member is the outcome of get_chat_member for
\* the caller (the handler uses the caller for nothing else); toks are the
\* tokens that secrets.choice yields, one per post channel.
ReqCommand(chat, member) ==
    /\ Idle
    /\ update' = Update("req", None, chat, <<>>, None)
    /\ nUpdates' = nUpdates + 1
    /\ IF AdminCheck(chat, member) # "ok"
         THEN /\ reply' = Reply(AdminCheck(chat, member), 0, <<>>)
              /\ UNCHANGED <<req_channels, request_links, bot_username, gen,
                             collided, issued>>
       ELSE /\ req_channels' = add_req_channel(req_channels, chat, ChatTitle(chat))
            /\ \E me \in GetMe :
                 IF me = "error"
                   THEN /\ reply' = NoReply
                        /\ UNCHANGED <<request_links, bot_username, gen, collided,
                                       issued>>
                 ELSE \E toks \in Draws(Len(get_post_channels), issued) :
                      LET made == create_request_links(request_links,
                                                       get_post_channels, chat, toks)
                      IN  /\ bot_username' = me
                          /\ request_links' = made.links
                          /\ gen' = [gen EXCEPT
                                       ![chat] = Generated(post_channels, toks)]
                          /\ collided' = (collided \/ Collides(request_links, toks))
                          /\ issued' = Max({issued} \cup Range(toks))
                          /\ reply' = Reply("links", made.count,
                                            get_request_links(made.links, post_channels,
                                                              chat, me))
    /\ UNCHANGED <<owner, post_channels, buttons, pc, send, outbox, req,
                   concurrent_updates>>

\* send_command up to its loop: the checks, then the list of post channels
\* that the loop will walk.
SendStart(chat, member) ==
    /\ Idle
    /\ pc = "idle"
    /\ update' = Update("send", None, chat, <<>>, None)
    /\ nUpdates' = nUpdates + 1
    /\ IF AdminCheck(chat, member) # "ok"
         THEN /\ reply' = Reply(AdminCheck(chat, member), 0, <<>>)
              /\ UNCHANGED <<bot_username, pc, send, outbox>>
       ELSE IF get_req_channel(req_channels, chat) = <<>>
         THEN /\ reply' = Reply("not_registered", 0, <<>>)
              /\ UNCHANGED <<bot_username, pc, send, outbox>>
       ELSE IF get_post_channels = <<>>
         THEN /\ reply' = Reply("no_post_channels", 0, <<>>)
              /\ UNCHANGED <<bot_username, pc, send, outbox>>
       ELSE \E me \in GetMe :
            /\ reply' = NoReply
            /\ IF me = "error"
                 THEN UNCHANGED <<bot_username, pc, send, outbox>>
               ELSE /\ bot_username' = me
                    /\ pc' = "send"
                    /\ send' = [req |-> chat, list |-> get_post_channels, idx |-> 1,
                                success |-> 0, failed |-> <<>>]
                    /\ outbox' = <<>>
    /\ UNCHANGED <<owner, post_channels, req_channels, request_links, buttons, gen,
                   collided, issued,
                   req, concurrent_updates>>

\* The loop of send_command with break in place of continue: a missing link
\* ends the loop.
SendIter_aborting_on_missing_link(delivered) ==
    /\ pc = "send"
    /\ NoneRunning
    /\ send.idx <= Len(send.list)
    /\ LET post == send.list[send.idx]
           request_link == get_request_link_for_post(request_links, send.req,
                                                     post.channel_id, bot_username)
       IN  IF request_link = NoLink
             THEN /\ send' = [send EXCEPT
                        !.failed = Append(@, <<post.channel_name, "No link found">>),
                        !.idx = Len(send.list) + 1]
                  /\ UNCHANGED outbox
           ELSE /\ outbox' = Append(outbox, [chat_id |-> post.channel_id,
                                             url |-> request_link,
                                             delivered |-> delivered])
                /\ send' = IF delivered
                             THEN [send EXCEPT !.success = @ + 1, !.idx = @ + 1]
                           ELSE [send EXCEPT
                                   !.failed = Append(@, <<post.channel_name, "Error">>),
                                   !.idx = @ + 1]
    /\ UNCHANGED <<owner, post_channels, req_channels, request_links, bot_username,
                   buttons, pc, reply, update, nUpdates, gen,
                   collided, issued,
                   req, concurrent_updates>>

\* One pass of the loop of send_command; delivered tells whether
\* bot.send_message returned or raised.
SendIter(delivered) ==
    /\ pc = "send"
    /\ NoneRunning
    /\ send.idx <= Len(send.list)
    /\ LET post == send.list[send.idx]
           request_link == get_request_link_for_post(request_links, send.req,
                                                     post.channel_id, bot_username)
       IN  IF request_link = NoLink
             THEN /\ send' = [send EXCEPT
                        !.failed = Append(@, <<post.channel_name, "No link found">>),
                        !.idx = @ + 1]
                  /\ UNCHANGED outbox
           ELSE /\ outbox' = Append(outbox, [chat_id |-> post.channel_id,
                                             url |-> request_link,
                                             delivered |-> delivered])
                /\ send' = IF delivered
                             THEN [send EXCEPT !.success = @ + 1, !.idx = @ + 1]
                           ELSE [send EXCEPT
                                   !.failed = Append(@, <<post.channel_name, "Error">>),
                                   !.idx = @ + 1]
    /\ UNCHANGED <<owner, post_channels, req_channels, request_links, bot_username,
                   buttons, pc, reply, update, nUpdates, gen,
                   collided, issued,
                   req, concurrent_updates>>

\* The report that ends send_command
SendReport ==
    /\ pc = "send"
    /\ NoneRunning
    /\ send.idx > Len(send.list)
    /\ reply' = Reply("report", send.success, send.failed)
    /\ pc' = "idle"
    /\ send' = NoSend
    /\ UNCHANGED <<owner, post_channels, req_channels, request_links, bot_username,
                   buttons, outbox, update, nUpdates, gen,
                   collided, issued,
                   req, concurrent_updates>>

\* ------------------------------------------------------- specification
\* main() stores OWNER_ID as the owner when it is configured (the users are
\* interchangeable: "u1" stands for the configured one); the tables of a
\* fresh bot_data.db are empty.
Init ==
    /\ owner \in {"u1", None}
    /\ post_channels = <<>>
    /\ req_channels = <<>>
    /\ request_links = <<>>
    /\ bot_username = None
    /\ buttons = {}
    /\ pc = "idle"
    /\ send = NoSend
    /\ outbox = <<>>
    /\ reply = NoReply
    /\ update = [handler |-> "none", user |-> None, chat |-> None, data |-> <<>>,
                 title |-> None, nposts |-> 0, nlinks |-> 0]
    /\ nUpdates = 0
    /\ gen = [r \in ReqChats |-> NoGen]
    /\ collided = FALSE
    /\ issued = 0
    /\ req = NoReq
    /\ concurrent_updates = FALSE

Next ==
    \/ \E user \in Users : SetOwner(user)
    \/ \E user \in Users, args \in {<<>>} \cup { <<id>> : id \in PostIds } :
            AddChannel(user, args)
    \/ \E user \in Users : ListChannels(user)
    \/ \E user \in Users, data \in buttons : ButtonCallback(user, data)
    \/ \E chat \in Chats, member \in MemberOutcomes : ReqCommand(chat, member)
    \/ \E chat \in Chats, member \in MemberOutcomes : SendStart(chat, member)
    \/ \E delivered \in BOOLEAN : SendIter(delivered)
    \/ SendReport

Spec == Init /\ [][Next]_vars

\* ------------------------------------------ handling updates concurrently
\* The documented concurrency model lets actions of different chats be
\* delivered concurrently.  main() does not enable it, so the program's
\* interleavings are among those of SpecConcurrent, in which a handler of
\* another chat may run whenever the broadcast of send_command is suspended
\* in an await (between two passes of its loop), and in which the loop of
\* create_request_links is walked row by row.

\* req_command up to the loop of create_request_links: the checks, the
\* registration, and the post channels (line 125) and tokens of the loop.
ReqStart(chat, member) ==
    /\ Idle
    /\ update' = Update("req", None, chat, <<>>, None)
    /\ nUpdates' = nUpdates + 1
    /\ IF AdminCheck(chat, member) # "ok"
         THEN /\ reply' = Reply(AdminCheck(chat, member), 0, <<>>)
              /\ UNCHANGED <<req_channels, bot_username, collided, issued, req>>
       ELSE /\ req_channels' = add_req_channel(req_channels, chat, ChatTitle(chat))
            /\ \E me \in GetMe :
                 IF me = "error"
                   THEN /\ reply' = NoReply
                        /\ UNCHANGED <<bot_username, collided, issued, req>>
                 ELSE \E toks \in Draws(Len(get_post_channels), issued) :
                      /\ bot_username' = me
                      /\ req' = [chat |-> chat, posts |-> get_post_channels,
                                 toks |-> toks, idx |-> 1]
                      /\ collided' = (collided \/ Collides(request_links, toks))
                      /\ issued' = Max({issued} \cup Range(toks))
                      /\ reply' = NoReply
    /\ UNCHANGED <<owner, post_channels, request_links, buttons, pc, send, outbox,
                   gen, concurrent_updates>>

\* One pass of the loop of create_request_links (lines 128-135)
ReqInsert ==
    /\ req # NoReq
    /\ req.idx <= Len(req.posts)
    /\ request_links' = insert_or_replace_link(request_links,
            [req_channel_id  |-> req.chat,
             post_channel_id |-> req.posts[req.idx].channel_id,
             link_token      |-> req.toks[req.idx],
             link_title      |-> req.posts[req.idx].channel_name])
    /\ req' = [req EXCEPT !.idx = @ + 1]
    /\ UNCHANGED <<owner, post_channels, req_channels, bot_username, buttons, pc,
                   send, outbox, reply, update, nUpdates, gen, collided, issued,
                   concurrent_updates>>

\* The end of create_request_links (commit, return) and the rest of
\* req_command: the links are read back and sent to the caller.
ReqFinish ==
    /\ req # NoReq
    /\ req.idx > Len(req.posts)
    /\ gen' = [gen EXCEPT ![req.chat] = Generated(req.posts, req.toks)]
    /\ reply' = Reply("links", Len(req.posts),
                      get_request_links(request_links, post_channels, req.chat,
                                        bot_username))
    /\ req' = NoReq
    /\ UNCHANGED <<owner, post_channels, req_channels, request_links, bot_username,
                   buttons, pc, send, outbox, update, nUpdates, collided, issued,
                   concurrent_updates>>

\* The post channels of a bot_data.db that an earlier run has filled
StoredPostChannels ==
    <<[channel_id |-> <<"@", "a", "_", "b">>, channel_name |-> "News"],
      [channel_id |-> <<"@", "a">>, channel_name |-> "Deals"]>>

\* A start on the database of an earlier run: the tables are created IF NOT
\* EXISTS, so the owner and the post channels stored then are there, and the
\* keyboard that /list sent then is still in the owner's chat.
InitConcurrent ==
    /\ owner = "u1"
    /\ post_channels = StoredPostChannels
    /\ req_channels = <<>>
    /\ request_links = <<>>
    /\ bot_username = None
    /\ buttons = Range(Keyboard(StoredPostChannels))
    /\ pc = "idle"
    /\ send = NoSend
    /\ outbox = <<>>
    /\ reply = NoReply
    /\ update = [handler |-> "none", user |-> None, chat |-> None, data |-> <<>>,
                 title |-> None, nposts |-> 0, nlinks |-> 0]
    /\ nUpdates = 0
    /\ gen = [r \in ReqChats |-> NoGen]
    /\ collided = FALSE
    /\ issued = 0
    /\ req = NoReq
    /\ concurrent_updates = TRUE

NextConcurrent ==
    \/ \E user \in Users : SetOwner(user)
    \/ \E user \in Users, args \in {<<>>} \cup { <<id>> : id \in PostIds } :
            AddChannel(user, args)
    \/ \E user \in Users : ListChannels(user)
    \/ \E user \in Users, data \in buttons : ButtonCallback(user, data)
    \/ \E chat \in Chats, member \in MemberOutcomes : ReqStart(chat, member)
    \/ ReqInsert
    \/ ReqFinish
    \/ \E chat \in Chats, member \in MemberOutcomes : SendStart(chat, member)
    \/ \E delivered \in BOOLEAN : SendIter(delivered)
    \/ SendReport

SpecConcurrent == InitConcurrent /\ [][NextConcurrent]_vars

\* ---------------------------------------------------------- properties
\* The step handles an update with the handler h.
Handled(h) == nUpdates' = nUpdates + 1 /\ update'.handler = h

\* The step is a req_command for chat r that reaches create_request_links.
Generates(r) == Handled("req") /\ update'.chat = r /\ reply'.kind = "links"

\* The step is a button_callback that calls remove_post_channel(id).
Removes(id) ==
    /\ Handled("button")
    /\ StartsWith(update'.data, REMOVE_PREFIX)
    /\ DecodeChannelId(update'.data) = id

\* The step is an add_channel that calls add_post_channel(id, update'.title).
Adds(id) == Handled("add") /\ update'.data = <<id>> /\ update'.title \in Titles

\* The rows of a table that belong to the post channel id
PostRows(table, id) == SelectSeq(table, LAMBDA r : r.channel_id = id)
LinkRowsOfPost(links, id) == SelectSeq(links, LAMBDA r : r.post_channel_id = id)

\* The tokens the last create_request_links(r) drew
Written(r) == { gen[r].written[id] : id \in DOMAIN gen[r].written }

\* C1: request_links holds at most one row for each pair
\* (req_channel_id, post_channel_id): generating again for a request channel
\* replaces the row of each pair and adds no second one.
C1_OneRowPerPair ==
    \A i, j \in 1..Len(request_links) :
        (/\ request_links[i].req_channel_id = request_links[j].req_channel_id
         /\ request_links[i].post_channel_id = request_links[j].post_channel_id)
        => i = j

\* C2: when create_request_links runs again for a request channel whose
\* last run found the same, untouched post_channels table, none of the tokens
\* of that last run is in request_links afterwards.  (Stated for the runs in
\* which no drawn token has repeated another: there a token that is found
\* after the second call is in a row of the first.)
C2_OldTokensGone ==
    [][\A r \in ReqChats :
         (Generates(r) /\ gen[r].called /\ ~gen[r].changed /\ ~collided')
         => Written(r) \cap LinkTokens(request_links') = {}]_vars

\* C3: every message a broadcast from request channel R dispatches to a post
\* channel P carries the token that the most recent create_request_links(R)
\* drew for P.  (No other handler runs during a broadcast, so gen[R] is the
\* generation that precedes each lookup.  Stated for the runs in which no
\* drawn token has repeated another.)
C3_BroadcastUsesLatestToken ==
    (pc = "send" /\ ~collided) =>
        \A i \in 1..Len(outbox) :
            /\ outbox[i].chat_id \in DOMAIN gen[send.req].written
            /\ outbox[i].url =
                 Link(bot_username, gen[send.req].written[outbox[i].chat_id])

\* C4: for every request channel R that has generated links,
\* get_request_links(R) has exactly one entry for each post channel that the
\* most recent create_request_links(R) found, and no other entry.  (Stated
\* for the runs in which no drawn token has repeated another.)
C4_ResolveLinksMirrorsLastGeneration ==
    \A r \in ReqChats :
        (gen[r].called /\ ~collided) =>
            LET rows == joined_links(request_links, post_channels, r)
            IN  /\ Len(get_request_links(request_links, post_channels, r,
                                         bot_username)) = Len(rows)
                /\ \A id \in DOMAIN gen[r].written :
                     Cardinality({ i \in 1..Len(rows) :
                                     rows[i].post_channel_id = id }) = 1
                /\ \A i \in 1..Len(rows) :
                     rows[i].post_channel_id \in DOMAIN gen[r].written

\* C5: a button press by a caller who is not the stored owner (nobody is,
\* while no owner is stored) leaves post_channels and request_links as they
\* were.
C5_RemoveOnlyByOwner ==
    [][(Handled("button") /\ update'.user # owner)
       => (post_channels' = post_channels /\ request_links' = request_links)]_vars

\* C6: every row of request_links has a post_channel_id that is in
\* post_channels.
C6_LinksReferencePostChannels ==
    \A i \in 1..Len(request_links) :
        request_links[i].post_channel_id \in ChannelIds(post_channels)

\* A post channel that had links has just been removed, and links of another
\* post channel are left.
C6_Witness ==
    /\ update.handler = "button"
    /\ StartsWith(update.data, REMOVE_PREFIX)
    /\ Len(post_channels) < update.nposts
    /\ Len(request_links) < update.nlinks
    /\ request_links # <<>>

\* C7: right after remove_post_channel(id), get_post_channels does not hold
\* id, no row of request_links has post_channel_id = id, and the rows of
\* every other post channel are still in both tables.
C7_RemoveCascadesAndKeepsOthers ==
    [][\A id \in PostIds :
         Removes(id) =>
            /\ id \notin ChannelIds(post_channels')
            /\ \A i \in 1..Len(request_links') :
                 request_links'[i].post_channel_id # id
            /\ \A other \in PostIds \ {id} :
                 /\ PostRows(post_channels', other) = PostRows(post_channels, other)
                 /\ LinkRowsOfPost(request_links', other)
                      = LinkRowsOfPost(request_links, other)]_vars

\* remove_post_channel has deleted one of two post channels and its link,
\* and the other post channel and its link are there.
C7_Witness ==
    /\ update.handler = "button"
    /\ StartsWith(update.data, REMOVE_PREFIX)
    /\ update.nposts = 2 /\ Len(post_channels) = 1
    /\ update.nlinks = 2 /\ Len(request_links) = 1
    /\ request_links[1].post_channel_id = post_channels[1].channel_id

\* C8: after add_post_channel(id, name) the table holds exactly one row for
\* id, and it carries name; a step that neither adds nor removes id leaves the
\* rows of id alone.  So after any run of adds of one id, with whatever else
\* in between but its removal, the table holds one row for id with the name
\* of the last add.
C8_AddIsUpsert ==
    [][\A id \in PostIds :
         IF Adds(id)
           THEN PostRows(post_channels', id)
                  = <<[channel_id |-> id, channel_name |-> update'.title]>>
         ELSE IF Removes(id) THEN TRUE
         ELSE PostRows(post_channels', id) = PostRows(post_channels, id)]_vars

\* A post channel that was in the table has been added again, under a name
\* that differs from the one its links were titled with.
C8_Witness ==
    /\ update.handler = "add"
    /\ update.title \in Titles
    /\ update.nposts = Len(post_channels)
    /\ \E i \in 1..Len(request_links) :
         /\ request_links[i].post_channel_id = update.data[1]
         /\ request_links[i].link_title # update.title
         /\ PostRows(post_channels, update.data[1])
              = <<[channel_id |-> update.data[1], channel_name |-> update.title]>>

\* C9: create_request_links(R) returns the number of rows of post_channels,
\* which is the number of rows of request_links for R that carry a token
\* drawn by this call; with no post channel it returns 0 and writes nothing.
C9_CountEqualsRowsWritten ==
    [][\A r \in ReqChats :
         Generates(r) =>
            /\ reply'.count = Len(post_channels)
            /\ reply'.count =
                 Cardinality({ i \in 1..Len(request_links') :
                    /\ request_links'[i].req_channel_id = r
                    /\ request_links'[i].link_token
                         \in { gen'[r].written[id] : id \in DOMAIN gen'[r].written } })
            /\ (post_channels = <<>>
                  => reply'.count = 0 /\ request_links' = request_links)]_vars

\* C10: the tokens of the rows of request_links are pairwise distinct: a
\* stored token belongs to one row, hence to one pair.
C10_TokensDistinct ==
    \A i, j \in 1..Len(request_links) :
        request_links[i].link_token = request_links[j].link_token => i = j

\* create_request_links has drawn a token that was already stored: the table
\* has fewer rows than it had plus those written, and still two at least.
C10_Witness ==
    /\ update.handler = "req"
    /\ reply.kind = "links"
    /\ reply.count > 0
    /\ Len(request_links) < update.nlinks + reply.count
    /\ Len(request_links) >= 2

\* request_links holds a row for the pair (r, id).
HasLink(r, id) ==
    \E i \in 1..Len(request_links) :
        /\ request_links[i].req_channel_id = r
        /\ request_links[i].post_channel_id = id

\* The messages of the outbox that went to the post channel id
SentTo(id) == { j \in 1..Len(outbox) : outbox[j].chat_id = id }

\* The member statuses that req_command and send_command let pass
Admins == {"creator", "administrator"}

\* C11: a broadcast that passes its checks attempts every post channel it
\* enumerated at its start once, and a missing link or a dispatch error ends
\* nothing: after each pass the successes and the failure entries add up to
\* the channels passed, every pass is a dispatch or a "No link found" entry,
\* and the report's success count plus its failure entries is the number of
\* post channels enumerated.
C11_EveryDestinationAttemptedOnce ==
    /\ pc = "send" =>
         /\ send.idx <= Len(send.list) + 1
         /\ send.success + Len(send.failed) = send.idx - 1
         /\ Len(outbox) + Cardinality({ k \in 1..Len(send.failed) :
                                          send.failed[k][2] = "No link found" })
              = send.idx - 1
         /\ send.success
              = Cardinality({ j \in 1..Len(outbox) : outbox[j].delivered })
    /\ reply.kind = "report" =>
         reply.count + Len(reply.data) = update.nposts

\* A broadcast over two post channels has reported one success and one
\* failure.
C11_Witness ==
    /\ reply.kind = "report"
    /\ update.nposts = 2
    /\ reply.count = 1
    /\ Len(reply.data) = 1

\* C12: during a broadcast from request channel R, a post channel passed
\* that has no row for (R, P) has got no message and has a failure entry
\* "No link found", and a post channel passed that has a row has got one
\* message; and a post channel that is in the table without having been in
\* it at the last create_request_links(R) has no row for (R, P).
C12_MissingLinkIsSkippedOthersSent ==
    /\ pc = "send" =>
         \A i \in 1..(send.idx - 1) :
            LET post == send.list[i]
            IN  IF HasLink(send.req, post.channel_id)
                  THEN Cardinality(SentTo(post.channel_id)) = 1
                ELSE /\ SentTo(post.channel_id) = {}
                     /\ \E k \in 1..Len(send.failed) :
                          send.failed[k] = <<post.channel_name, "No link found">>
    /\ \A r \in ReqChats, id \in ChannelIds(post_channels) :
         (~gen[r].called \/ id \notin DOMAIN gen[r].written) => ~HasLink(r, id)

\* A broadcast has passed a post channel that was added after the last
\* generation and has no link, and after it a post channel that has one.
C12_Witness ==
    /\ pc = "send"
    /\ \E i, j \in 1..(send.idx - 1) :
         /\ i < j
         /\ ~HasLink(send.req, send.list[i].channel_id)
         /\ send.list[i].channel_id \notin DOMAIN gen[send.req].written
         /\ HasLink(send.req, send.list[j].channel_id)
         /\ SentTo(send.list[j].channel_id) # {}

\* C13: a send_command whose caller is no admin or creator of the chat, whose
\* membership lookup raises, or whose chat is not in req_channels, ends before
\* its loop: no broadcast is started, nothing is dispatched, and the tables
\* and the owner are as they were.
C13_FailedPreconditionSendsNothing ==
    [][\A chat \in ReqChats, member \in MemberOutcomes :
         (/\ \/ member \notin Admins
             \/ chat \notin ChannelIds(req_channels)
          /\ SendStart(chat, member))
         => /\ pc' = "idle"
            /\ outbox' = outbox
            /\ reply'.kind \in {"admins_only", "perm_error", "not_registered"}
            /\ <<owner, post_channels, req_channels, request_links>>'
                 = <<owner, post_channels, req_channels, request_links>>]_vars

\* An admin has called /send in a chat that is not registered, while post
\* channels and links of another request channel exist.
C13_Witness ==
    /\ update.handler = "send"
    /\ reply.kind = "not_registered"
    /\ update.chat \notin ChannelIds(req_channels)
    /\ post_channels # <<>>
    /\ request_links # <<>>

\* C14: add_channel and list_channels called by a user who is not the stored
\* owner (anybody, while no owner is stored) answer "only owner": the
\* post_channels table is unchanged and no list of channels (no keyboard) is
\* sent.
C14_OwnerOnlyAddAndList ==
    [][((Handled("add") \/ Handled("list")) /\ update'.user # owner)
       => /\ reply' = Reply("owner_only", 0, <<>>)
          /\ post_channels' = post_channels
          /\ buttons' = buttons]_vars

\* A user who is not the owner has called /list while post channels are
\* stored.
C14_Witness ==
    /\ update.handler = "list"
    /\ update.user # owner
    /\ owner # None
    /\ post_channels # <<>>
    /\ reply.kind = "owner_only"

\* C15: every row of request_links has a req_channel_id that is in
\* req_channels, and a req_command whose admin check fails (the caller is no
\* admin or creator, or the lookup raises) writes no row of req_channels and
\* no row of request_links.
C15_LinksOnlyAfterRegistration ==
    [][/\ \A i \in 1..Len(request_links') :
            request_links'[i].req_channel_id \in ChannelIds(req_channels')
       /\ \A chat \in ReqChats, member \in MemberOutcomes :
            (member \notin Admins /\ ReqCommand(chat, member))
            => (req_channels' = req_channels /\ request_links' = request_links)]_vars

\* Links have been generated for two registered request channels.
C15_Witness ==
    /\ update.handler = "req"
    /\ reply.kind = "links"
    /\ Len(req_channels) = 2
    /\ \A r \in ReqChats : \E id \in ChannelIds(post_channels) : HasLink(r, id)

\* The rows of request_links that belong to request channels other than r
LinkRowsOfOthers(links, r) == SelectSeq(links, LAMBDA row : row.req_channel_id # r)

\* C17: for every channel id c that add_channel can store, a press of the
\* button that list_channels builds for c deletes the post_channels row of c
\* and its links and no row of another post channel: the id that
\* button_callback decodes from the callback data is c.
C17_ButtonRemovesItsOwnChannel ==
    [][\A c \in PostIds :
         (Handled("button") /\ update'.data = CallbackData(c))
         => /\ DecodeChannelId(CallbackData(c)) = c
            /\ c \notin ChannelIds(post_channels')
            /\ LinkRowsOfPost(request_links', c) = <<>>
            /\ \A other \in PostIds \ {c} :
                 /\ PostRows(post_channels', other) = PostRows(post_channels, other)
                 /\ LinkRowsOfPost(request_links', other)
                      = LinkRowsOfPost(request_links, other)]_vars

\* C18: when the owner calls add_channel with an id that bot.get_chat cannot
\* resolve, the answer is the failure message and post_channels is unchanged:
\* no row is inserted for the id and a row it has is not overwritten.
C18_UnresolvedAddWritesNothing ==
    [][(/\ Handled("add")
        /\ update'.user = owner
        /\ update'.data # <<>>
        /\ update'.title = "error")
       => /\ reply'.kind = "add_failed"
          /\ post_channels' = post_channels]_vars

\* The owner has called /add for a stored post channel, get_chat has raised,
\* and the row of the channel is there with its name.
C18_Witness ==
    /\ update.handler = "add"
    /\ update.user = owner
    /\ update.title = "error"
    /\ reply.kind = "add_failed"
    /\ update.data # <<>>
    /\ PostRows(post_channels, update.data[1]) # <<>>
    /\ PostRows(post_channels, update.data[1])[1].channel_name \in Titles

\* C19: create_request_links(R) changes rows of request_links whose
\* req_channel_id is R and nothing else: the rows of every other request
\* channel, the post_channels table and the owner are after the call what
\* they were before it.
C19_GenerationTouchesOnlyItsChannel ==
    [][\A r \in ReqChats :
         Generates(r)
         => /\ LinkRowsOfOthers(request_links', r) = LinkRowsOfOthers(request_links, r)
            /\ post_channels' = post_channels
            /\ owner' = owner]_vars

\* create_request_links is inside its loop and has written the rows of some
\* of its post channels, not of all.
PartlyWritten == req # NoReq /\ 1 < req.idx /\ req.idx <= Len(req.posts)

\* C16: the rows that create_request_links writes are written as one unit
\* with respect to every other action: while the rows of only some of the
\* post channels of a call are written, no update is taken (no list, no
\* removal, no other generation that reads the links back), the suspended
\* broadcast does not resume (no link lookup, no dispatch, no report) and no
\* answer is sent; the one step possible is the next insert of the call.
C16_GenerationIsOneUnit ==
    [][PartlyWritten
       => /\ req'.idx = req.idx + 1
          /\ <<nUpdates, update, reply, send, outbox, pc, buttons>>'
               = <<nUpdates, update, reply, send, outbox, pc, buttons>>
          /\ <<owner, post_channels, req_channels>>'
               = <<owner, post_channels, req_channels>>]_vars

\* A broadcast from a request channel is suspended before its second
\* dispatch while create_request_links for the same channel has written the
\* row of the first of two post channels.
C16_Witness ==
    /\ PartlyWritten
    /\ pc = "send"
    /\ send.req = req.chat
    /\ send.idx = 2
    /\ outbox # <<>>
    /\ buttons # {}

\* C20: the broadcast dispatches no message to a post channel that is not in
\* post_channels when its link is looked up; so a post channel removed while
\* the broadcast is suspended at an earlier destination gets no message when
\* the loop comes to it.
C20_NoDispatchToRemovedChannel ==
    [][(pc = "send" /\ Len(outbox') = Len(outbox) + 1)
       => outbox'[Len(outbox')].chat_id \in ChannelIds(post_channels)]_vars

\* A broadcast has dispatched to its first post channel, its second one, for
\* which a link had been generated, was removed after that, and the loop has
\* passed it without a dispatch.
C20_Witness ==
    /\ pc = "send"
    /\ send.idx = 3
    /\ SentTo(send.list[1].channel_id) # {}
    /\ send.list[2].channel_id \in DOMAIN gen[send.req].written
    /\ send.list[2].channel_id \notin ChannelIds(post_channels)
    /\ SentTo(send.list[2].channel_id) = {}
    /\ send.failed = <<<<send.list[2].channel_name, "No link found">>>>

====
